---- MODULE Spec2Model ----
(***************************************************************************)
(* A state-machine model of VocoderDataset                                 *)
(* (nemo/collections/tts/data/vocoder_dataset.py): construction over the   *)
(* configured collections, indexed access with the bounded segment-read    *)
(* retry and the feature processor chain, the optional weighted sampler    *)
(* and batch collation.                                                    *)
(***************************************************************************)
EXTENDS Integers, Sequences, FiniteSets, TLC

\* An optional value: None, or Some(v).
None == <<>>
Some(v) == <<v>>

----------------------------------------------------------------------------
\* Bounds of the model.

\* Most collections in dataset_meta.
MaxCollections == 2
\* Most filtered manifest entries of one collection.
MaxEntries == 5
\* Most feature processors in the configured chain.
MaxProcessors == 2
\* Largest configured weighted_sample_steps.
MaxSteps == 2
\* Largest batch (collate_fn's list, get_sampler's batch_size).
MaxBatch == 2
\* Longest audio array of an example handed to collate_fn directly.
MaxAudioLen == 2

----------------------------------------------------------------------------
\* Helpers.

RECURSIVE SumSeq(_)
SumSeq(s) == IF s = <<>> THEN 0 ELSE Head(s) + SumSeq(Tail(s))

RECURSIVE Flatten(_)
Flatten(ss) == IF ss = <<>> THEN <<>> ELSE Head(ss) \o Flatten(Tail(ss))

SeqsUpTo(S, n) == UNION {[1..k -> S] : k \in 0..n}

MaxOf(S) == CHOOSE m \in S : \A x \in S : x <= m

SetField(d, k, v) == [x \in (DOMAIN d) \cup {k} |-> IF x = k THEN v ELSE d[x]]

----------------------------------------------------------------------------
VARIABLES
    \* the file system: manifests[c] is the number of entries of collection
    \* c's manifest that pass the duration filter
    manifests,
    \* constructor arguments / configuration
    dataset_meta, sample_rate, n_segments, weighted_sample_steps,
    feature_processors,
    \* the assembled index
    data_samples, sample_weights,
    \* position of __init__'s loop over dataset_meta.items()
    next_dataset,
    \* one __getitem__ call: its position, locals and outcome
    pc, index, audio_filepath, decode_calls, example, proc_calls, error,
    \* the mini-batch the surrounding loader has gathered for collate_fn
    batch,
    \* the outcome of the last __len__, get_sampler or collate_fn call
    ret

config == <<manifests, dataset_meta, sample_rate, n_segments,
            weighted_sample_steps, feature_processors>>
assembled == <<data_samples, sample_weights>>
getitem == <<pc, index, audio_filepath, decode_calls, example, proc_calls, error>>
vars == <<config, assembled, next_dataset, getitem, batch, ret>>

----------------------------------------------------------------------------
\* Configuration inputs.

Weights == {1, 2}
SampleRates == {22050}
\* n_segments: absent, zero, or a positive segment length.
NSegmentsValues == {None, Some(0), Some(2)}
StepsValues == {None} \cup {Some(n) : n \in 0..MaxSteps}
\* What a feature processor does to the example: write a field, shorten the
\* audio, or raise.
ProcessorKinds == {"pitch1", "pitch2", "trim", "raise"}

\* DatasetMeta of collection c.
DatasetMeta(c, w) == [manifest_path |-> c, audio_dir |-> c, sample_weight |-> w]

\* The k-th filtered manifest entry of collection c; every entry names a file
\* of its own.
ManifestEntry(c, k) == [audio_filepath |-> 10 * c + k]

Metas == UNION {[1..n -> {DatasetMeta(c, w) : c \in 1..MaxCollections, w \in Weights}]
                : n \in 0..MaxCollections}

\* How many entries of each manifest pass the duration filter.
Manifests == [1..MaxCollections -> 0..MaxEntries]

\* read_manifest followed by filter_dataset_by_duration, lines 131-136.
FilteredEntries(c) == [k \in 1..manifests[c] |-> ManifestEntry(c, k)]

----------------------------------------------------------------------------
\* __init__

\* lines 70-74: a missing or empty processor dict leaves an empty chain.
InitFeatureProcessors(arg) == IF arg = None \/ arg = Some(<<>>) THEN <<>> ELSE arg[1]

\* _process_dataset giving every sample the default weight.
ProcessDatasetWeightOne(dataset, filtered_entries) ==
    <<[k \in DOMAIN filtered_entries |->
          [manifest_entry |-> filtered_entries[k], audio_dir |-> dataset.audio_dir]],
      [k \in DOMAIN filtered_entries |-> 1]>>

\* _process_dataset, lines 144-154: one DatasetSample and one weight per
\* filtered entry.
ProcessDataset(dataset, filtered_entries) ==
    <<[k \in DOMAIN filtered_entries |->
          [manifest_entry |-> filtered_entries[k], audio_dir |-> dataset.audio_dir]],
      [k \in DOMAIN filtered_entries |-> dataset.sample_weight]>>

Constructed == next_dataset > Len(dataset_meta)

\* One iteration of the loop of lines 78-86.
MergeDataset ==
    /\ ~Constructed
    /\ LET dataset == dataset_meta[next_dataset]
           res == ProcessDataset(dataset, FilteredEntries(dataset.manifest_path))
       IN /\ data_samples' = data_samples \o res[1]
          /\ sample_weights' = sample_weights \o res[2]
    /\ next_dataset' = next_dataset + 1
    /\ UNCHANGED <<config, getitem, batch, ret>>

\* __len__, lines 156-157.
LenOf(samples) == Len(samples)

CallLen ==
    /\ Constructed
    /\ ret' = [op |-> "len", arg |-> 0, raised |-> FALSE, value |-> LenOf(data_samples)]
    /\ UNCHANGED <<config, assembled, next_dataset, getitem, batch>>

----------------------------------------------------------------------------
\* The audio files and the decode utilities.

\* The samples of the file at an absolute path <<audio_dir, relative path>>:
\* entry k of a collection holds k + 1 samples, none of them zero.
FileAudio(path) == [j \in 1..((path[2] % 10) + 1) |-> 10 * path[2] + j]

\* get_abs_rel_paths, line 163.
GetAbsRelPaths(input_path, base_path) ==
    [abs |-> <<base_path, input_path>>, rel |-> input_path]

\* What librosa.load can return for a file, line 116.
FullDecodes(path, sr) == {[ok |-> TRUE, samples |-> FileAudio(path)]}

\* What AudioSegment.segment_from_file can return, lines 103-107: a window of
\* n samples at any offset, the whole file when it is no longer than n or no
\* length is asked for.
SegmentDecodes(path, sr, n) ==
    LET a == FileAudio(path)
    IN IF n = None \/ n = Some(0) \/ Len(a) <= n[1]
       THEN {[ok |-> TRUE, samples |-> a]}
       ELSE {[ok |-> TRUE, samples |-> SubSeq(a, o + 1, o + n[1])] : o \in 0..(Len(a) - n[1])}

\* A decode utility raising.
DecodeRaises == [ok |-> FALSE, samples |-> <<>>]

----------------------------------------------------------------------------
\* _segment_audio and _sample_audio

\* A loop of one attempt more.
RetryLimitPlusOne == 3 + 1

\* line 101: range(3).
RetryLimit == 3

\* A segment_from_file call that asks for a rate of its own.
SegmentCallDefaultRate(path, sr, n) ==
    [fn |-> "segment_from_file", path |-> path, target_sr |-> 16000, n_segments |-> n]

\* lines 103-107: the arguments of one segment_from_file call.
SegmentCall(path, sr, n) ==
    [fn |-> "segment_from_file", path |-> path, target_sr |-> sr, n_segments |-> n]

\* line 116: the arguments of the librosa.load call.
LoadCall(path, sr) ==
    [fn |-> "librosa.load", path |-> path, target_sr |-> sr, n_segments |-> None]

\* An exhausted loop answered with an empty segment.
RetryExhaustedSubstitute(path) ==
    [raised |-> FALSE, error |-> [type |-> "ValueError", path |-> path], value |-> <<>>]

\* line 112: what follows the loop once every attempt has failed.
RetryExhausted(path) ==
    [raised |-> TRUE, error |-> [type |-> "ValueError", path |-> path], value |-> <<>>]

\* A test of presence in place of truthiness.
UseFullFileIfNone(ns) == ns = None

\* Every read sent through the retried segment path.
UseFullFileNever(ns) == FALSE

\* line 115: not self.n_segments.
UseFullFile(ns) == ns = None \/ ns = Some(0)

\* A length one off the tensor's.
SampleAudioLenOff(audio_array) ==
    [audio |-> audio_array, audio_len |-> Len(audio_array) + 1]

\* lines 120-122: the tensor and its length.
SampleAudio(audio_array) ==
    [audio |-> audio_array, audio_len |-> Len(audio_array)]

\* lines 167-171: the example mapping.
MakeExample(rel, sampled) ==
    [audio_filepath |-> rel, audio |-> sampled.audio, audio_len |-> sampled.audio_len]

----------------------------------------------------------------------------
\* Feature processors.

\* processor.process(example): whether it returns, and the example after it.
Process(kind, ex) ==
    CASE kind = "pitch1" -> [ok |-> TRUE, ex |-> SetField(ex, "pitch", 1)]
      [] kind = "pitch2" -> [ok |-> TRUE, ex |-> SetField(ex, "pitch", 2)]
      [] kind = "trim" ->
            [ok |-> TRUE,
             ex |-> [ex EXCEPT !["audio"] = SubSeq(ex["audio"], 1, Len(ex["audio"]) - 1)]]
      [] OTHER -> [ok |-> FALSE, ex |-> ex]

\* The chain walked from its end.
ProcessorAtReversed(chain, k) == chain[Len(chain) + 1 - k]

\* line 173: the k-th processor of the loop.
ProcessorAt(chain, k) == chain[k]

----------------------------------------------------------------------------
\* __getitem__

Idle == pc \in {"idle", "returned", "raised"}

\* lines 160-163: a call begins; its locals are its own.
GetBegin(i) ==
    /\ Constructed
    /\ Idle
    /\ LET data == data_samples[i]
       IN audio_filepath' = GetAbsRelPaths(data.manifest_entry.audio_filepath,
                                           data.audio_dir)
    /\ index' = i
    /\ pc' = "sample"
    /\ decode_calls' = <<>>
    /\ proc_calls' = <<>>
    /\ example' = None
    /\ error' = None
    /\ UNCHANGED <<config, assembled, next_dataset, batch, ret>>

\* lines 115-116 and 120-122: the whole file, read once; a failure of
\* librosa.load is not caught.
LoadFull ==
    /\ pc = "sample"
    /\ UseFullFile(n_segments)
    /\ decode_calls = <<>>
    /\ \E out \in FullDecodes(audio_filepath.abs, sample_rate) \cup {DecodeRaises} :
          /\ decode_calls' = <<[call |-> LoadCall(audio_filepath.abs, sample_rate),
                                result |-> out]>>
          /\ IF ~out.ok
             THEN /\ pc' = "raised"
                  /\ error' = Some([type |-> "DecodeError", path |-> audio_filepath.abs])
                  /\ example' = None
             ELSE /\ pc' = "process"
                  /\ error' = None
                  /\ example' = Some(MakeExample(audio_filepath.rel,
                                                 SampleAudio(out.samples)))
    /\ UNCHANGED <<config, assembled, next_dataset, index, audio_filepath,
                   proc_calls, batch, ret>>

\* lines 101-112 and 118-122: one attempt of the retry loop; the last failed
\* attempt falls out of the loop into line 112.
SegmentAttempt ==
    /\ pc = "sample"
    /\ ~UseFullFile(n_segments)
    /\ Len(decode_calls) < RetryLimit
    /\ \E out \in SegmentDecodes(audio_filepath.abs, sample_rate, n_segments) \cup {DecodeRaises} :
          /\ decode_calls' = Append(decode_calls,
                [call |-> SegmentCall(audio_filepath.abs, sample_rate, n_segments),
                 result |-> out])
          /\ IF out.ok
             THEN /\ pc' = "process"
                  /\ error' = None
                  /\ example' = Some(MakeExample(audio_filepath.rel,
                                                 SampleAudio(out.samples)))
             ELSE IF Len(decode_calls) + 1 < RetryLimit
             THEN UNCHANGED <<pc, error, example>>
             ELSE LET end == RetryExhausted(audio_filepath.abs)
                  IN IF end.raised
                     THEN /\ pc' = "raised"
                          /\ error' = Some(end.error)
                          /\ example' = None
                     ELSE /\ pc' = "process"
                          /\ error' = None
                          /\ example' = Some(MakeExample(audio_filepath.rel,
                                                         SampleAudio(end.value)))
    /\ UNCHANGED <<config, assembled, next_dataset, index, audio_filepath,
                   proc_calls, batch, ret>>

\* lines 173-174: the next processor of the chain runs on the example; its
\* failure is not caught.
RunProcessor ==
    /\ pc = "process"
    /\ Len(proc_calls) < Len(feature_processors)
    /\ LET kind == ProcessorAt(feature_processors, Len(proc_calls) + 1)
           out == Process(kind, example[1])
       IN /\ proc_calls' = Append(proc_calls, kind)
          /\ IF ~out.ok
             THEN /\ pc' = "raised"
                  /\ error' = Some([type |-> "ProcessorError", path |-> audio_filepath.abs])
                  /\ example' = None
             ELSE /\ example' = Some(out.ex)
                  /\ UNCHANGED <<pc, error>>
    /\ UNCHANGED <<config, assembled, next_dataset, index, audio_filepath,
                   decode_calls, batch, ret>>

\* line 176: return example.
GetReturn ==
    /\ pc = "process"
    /\ Len(proc_calls) = Len(feature_processors)
    /\ pc' = "returned"
    /\ UNCHANGED <<config, assembled, next_dataset, index, audio_filepath,
                   decode_calls, example, proc_calls, error, batch, ret>>

----------------------------------------------------------------------------
\* get_sampler

\* get_weighted_sampler: the sampler handle, known here by what it was built
\* from.
GetWeightedSampler(weights, batch_size, num_steps) ==
    [sample_weights |-> weights, batch_size |-> batch_size, num_steps |-> num_steps]

\* A test of presence in place of truthiness.
SamplerDisabledIfNone(steps) == steps = None

\* line 89: not self.weighted_sample_steps.
SamplerDisabled(steps) == steps = None \/ steps = Some(0)

\* lines 88-97.
GetSampler(weights, batch_size, steps) ==
    IF SamplerDisabled(steps)
    THEN None
    ELSE Some(GetWeightedSampler(weights, batch_size, steps[1]))

CallGetSampler ==
    /\ Constructed
    /\ \E batch_size \in 1..MaxBatch :
          ret' = [op |-> "get_sampler", arg |-> batch_size, raised |-> FALSE,
                  value |-> GetSampler(sample_weights, batch_size, weighted_sample_steps)]
    /\ UNCHANGED <<config, assembled, next_dataset, getitem, batch>>

----------------------------------------------------------------------------
\* collate_fn

\* The largest integer up to which every integer is a 32-bit float.
Float32Exact == 16777216

\* torch.tensor(..., dtype=torch.float32), line 186, on a sample value in
\* 0..2^25: above 2^24 floats are two apart, ties go to the even mantissa.
Float32(v) ==
    IF v <= Float32Exact \/ v % 2 = 0 THEN v
    ELSE IF (v + 1) % 4 = 0 THEN v + 1 ELSE v - 1

\* line 186: the example's audio as a float32 tensor.
AudioTensor(ex) == [j \in DOMAIN ex["audio"] |-> Float32(ex["audio"][j])]

\* The length trusted from the stored field.
TensorLenStored(ex) == ex["audio_len"]

\* line 188: the length is taken from the tensor.
TensorLen(ex) == Len(AudioTensor(ex))

\* stack_tensors with one padded dimension: every tensor zero-padded on the
\* right to max_len, one row each.
StackTensors(tensors, max_len) ==
    [i \in DOMAIN tensors |->
        [j \in 1..max_len |-> IF j <= Len(tensors[i]) THEN tensors[i][j] ELSE 0]]

\* lines 178-201; the max of an empty length tensor (line 191) raises.
CollateFn(b) ==
    LET audio_filepath_list == [i \in DOMAIN b |-> b[i]["audio_filepath"]]
        audio_list == [i \in DOMAIN b |-> AudioTensor(b[i])]
        audio_len_list == [i \in DOMAIN b |-> TensorLen(b[i])]
    IN IF audio_len_list = <<>>
       THEN [raised |-> TRUE, value |-> None]
       ELSE LET audio_max_len == MaxOf({audio_len_list[i] : i \in DOMAIN b})
            IN [raised |-> FALSE,
                value |-> Some([audio_filepaths |-> audio_filepath_list,
                                audio |-> StackTensors(audio_list, audio_max_len),
                                audio_lens |-> audio_len_list])]

\* The loader puts the example a __getitem__ call returned into its batch.
Gather ==
    /\ pc = "returned"
    /\ Len(batch) < MaxBatch
    /\ batch' = Append(batch, example[1])
    /\ pc' = "idle"
    /\ UNCHANGED <<config, assembled, next_dataset, index, audio_filepath,
                   decode_calls, example, proc_calls, error, ret>>

\* The loader collates the batch it holds.
CallCollate ==
    /\ Constructed
    /\ LET out == CollateFn(batch)
       IN ret' = [op |-> "collate", arg |-> batch, raised |-> out.raised,
                  value |-> out.value]
    /\ batch' = <<>>
    /\ UNCHANGED <<config, assembled, next_dataset, getitem>>

----------------------------------------------------------------------------
\* Specifications.

AllChains == {None} \cup {Some(c) : c \in SeqsUpTo(ProcessorKinds, MaxProcessors)}
ShortChains == {None, Some(<<>>), Some(<<"pitch1">>), Some(<<"trim">>), Some(<<"raise">>),
                Some(<<"trim", "raise">>)}

\* The scenario of two collections, A of weight 2 and B of weight 1.
TwoCollections == {<<DatasetMeta(1, 2), DatasetMeta(2, 1)>>}

\* Examples handed to collate_fn directly: any audio, a stored audio_len that
\* may disagree with it, and a sample value no 32-bit float holds.
CollateSamples == {1, Float32Exact + 1}
CollateExamples ==
    {[audio_filepath |-> p, audio |-> a, audio_len |-> n] :
        p \in {11, 12}, a \in SeqsUpTo(CollateSamples, MaxAudioLen), n \in {0, MaxAudioLen}}
CollateBatches == SeqsUpTo(CollateExamples, MaxBatch)

\* The state as __init__ reaches its loop over the collections.
InitWith(metas, mans, nsegs, steps, chains, batches) ==
    /\ manifests \in mans
    /\ dataset_meta \in metas
    /\ sample_rate \in SampleRates
    /\ n_segments \in nsegs
    /\ weighted_sample_steps \in steps
    /\ feature_processors \in {InitFeatureProcessors(c) : c \in chains}
    /\ data_samples = <<>>
    /\ sample_weights = <<>>
    /\ next_dataset = 1
    /\ pc = "idle"
    /\ index = 0
    /\ audio_filepath = [abs |-> <<0, 0>>, rel |-> 0]
    /\ decode_calls = <<>>
    /\ example = None
    /\ proc_calls = <<>>
    /\ error = None
    /\ batch \in batches
    /\ ret = [op |-> "none", arg |-> 0, raised |-> FALSE, value |-> None]

GetItem ==
    \/ \E i \in DOMAIN data_samples : GetBegin(i)
    \/ LoadFull
    \/ SegmentAttempt
    \/ RunProcessor
    \/ GetReturn

\* The dataset in use: construction, then any interleaving of the calls.
Init == InitWith(TwoCollections, {[c \in 1..MaxCollections |-> 1]}, NSegmentsValues,
                 {None, Some(0), Some(1)}, ShortChains, {<<>>})
Next == MergeDataset \/ CallLen \/ GetItem \/ CallGetSampler \/ Gather \/ CallCollate
Spec == Init /\ [][Next]_vars

\* Construction over every configuration of collections.
InitAssemble == InitWith(Metas, Manifests, {None}, {None}, {None}, {<<>>})
NextAssemble == MergeDataset \/ CallLen
SpecAssemble == InitAssemble /\ [][NextAssemble]_vars

\* Indexed access under every segment length and processor chain.
InitGet == InitWith(TwoCollections, {[c \in 1..MaxCollections |-> 2]},
                    NSegmentsValues, {None}, AllChains, {<<>>})
NextGet == MergeDataset \/ GetItem
SpecGet == InitGet /\ [][NextGet]_vars

\* get_sampler under every step count.
InitSampler == InitWith(Metas, {[c \in 1..MaxCollections |-> c]}, {None},
                        StepsValues, {None}, {<<>>})
NextSampler == MergeDataset \/ CallGetSampler
SpecSampler == InitSampler /\ [][NextSampler]_vars

\* collate_fn on every batch of well-formed examples.
InitCollate == InitWith({<<>>}, {[c \in 1..MaxCollections |-> 0]}, {None}, {None},
                        {None}, CollateBatches)
NextCollate == CallCollate
SpecCollate == InitCollate /\ [][NextCollate]_vars

----------------------------------------------------------------------------
\* Properties.

LastDecode == decode_calls[Len(decode_calls)]
Finished == pc \in {"returned", "raised"}
AllFailed(calls) == \A k \in DOMAIN calls : ~calls[k].result.ok
IsSegmentCall(c) == c.call.fn = "segment_from_file"
IsLoadCall(c) == c.call.fn = "librosa.load"
ErrorIs(t) == error # None /\ error[1].type = t

\* C1: with a segment length configured, three consecutive failed segment
\* reads end the call with the read error carrying the file's path, after
\* exactly three attempts; there is never a fourth.
C1_RetryExhausted ==
    /\ Len(decode_calls) <= 3
    /\ (/\ Len(decode_calls) >= 3
        /\ \A k \in 1..3 : IsSegmentCall(decode_calls[k]) /\ ~decode_calls[k].result.ok)
       => /\ Len(decode_calls) = 3
          /\ pc = "raised"
          /\ example = None
          /\ error = Some([type |-> "ValueError", path |-> audio_filepath.abs])
    /\ ErrorIs("ValueError")
       => Len(decode_calls) = 3 /\ AllFailed(decode_calls) /\ n_segments \notin {None, Some(0)}

C1_Witness ==
    /\ n_segments = Some(2)
    /\ pc = "raised"
    /\ Len(decode_calls) = 3
    /\ AllFailed(decode_calls)
    /\ ErrorIs("ValueError")

\* C2 as stated: once a segment read has succeeded, after k = 0, 1 or 2
\* failures, get(i) does not raise and returns that read's result.
C2_Original ==
    (/\ decode_calls # <<>>
     /\ IsSegmentCall(LastDecode)
     /\ LastDecode.result.ok)
    => /\ pc # "raised"
       /\ pc = "returned" => example[1]["audio"] = LastDecode.result.samples

\* C2, amended: once a segment read has succeeded, after k = 0, 1 or 2
\* failures, no further read is made, no read error is raised, and the example
\* is built from that read's result, which is the audio get(i) returns unless a
\* feature processor replaces it; get(i) then raises only if a processor
\* raises. Every attempt is made with the same path, sample rate and segment
\* length, and fewer than three failures never end the call.
C2_FirstSuccess ==
    (decode_calls # <<>> /\ IsSegmentCall(LastDecode))
    => /\ \A k \in DOMAIN decode_calls :
             /\ decode_calls[k].call =
                   [fn |-> "segment_from_file", path |-> audio_filepath.abs,
                    target_sr |-> sample_rate, n_segments |-> n_segments]
             /\ k < Len(decode_calls) => ~decode_calls[k].result.ok
       /\ (~LastDecode.result.ok /\ Len(decode_calls) < 3) => pc = "sample"
       /\ LastDecode.result.ok
          => /\ pc \in {"process", "returned", "raised"}
             /\ pc = "raised"
                => /\ ErrorIs("ProcessorError")
                   /\ proc_calls # <<>>
                   /\ proc_calls[Len(proc_calls)] = "raise"
             /\ (pc # "raised" /\ \A k \in DOMAIN proc_calls : proc_calls[k] # "trim")
                => example[1]["audio"] = LastDecode.result.samples

C2_Witness ==
    /\ pc = "returned"
    /\ Len(decode_calls) = 3
    /\ IsSegmentCall(LastDecode)
    /\ LastDecode.result.ok
    /\ example[1]["audio"] = LastDecode.result.samples

\* C3: with no segment length configured, the whole file is decoded by exactly
\* one call; its failure ends get(i) at once with that failure, with no second
\* attempt and not as the retry-exhausted error.
C3_FullFileOnce ==
    n_segments = None
    => /\ Len(decode_calls) <= 1
       /\ pc \in {"process", "returned", "raised"} => Len(decode_calls) = 1
       /\ \A k \in DOMAIN decode_calls :
             /\ decode_calls[k].call =
                   [fn |-> "librosa.load", path |-> audio_filepath.abs,
                    target_sr |-> sample_rate, n_segments |-> None]
             /\ ~decode_calls[k].result.ok
                => /\ pc = "raised"
                   /\ example = None
                   /\ error = Some([type |-> "DecodeError", path |-> audio_filepath.abs])
       /\ ~ErrorIs("ValueError")

C3_Witness ==
    /\ n_segments = None
    /\ pc = "raised"
    /\ Len(decode_calls) = 1
    /\ ~decode_calls[1].result.ok
    /\ ErrorIs("DecodeError")

\* C10: a segment length of 0 takes the full-file path as an absent one does:
\* the segment decode utility is never called, there is one read and no retry;
\* a positive segment length takes the segment path.
C10_ZeroIsFullFile ==
    /\ n_segments = Some(0)
       => /\ Len(decode_calls) <= 1
          /\ \A k \in DOMAIN decode_calls :
                /\ IsLoadCall(decode_calls[k])
                /\ ~decode_calls[k].result.ok => pc = "raised" /\ ErrorIs("DecodeError")
          /\ ~ErrorIs("ValueError")
    /\ n_segments = Some(2)
       => \A k \in DOMAIN decode_calls : IsSegmentCall(decode_calls[k])

C10_Witness ==
    /\ n_segments = Some(0)
    /\ pc = "raised"
    /\ Len(decode_calls) = 1
    /\ IsLoadCall(decode_calls[1])
    /\ ~decode_calls[1].result.ok

\* The samples and weights the collections of a configuration call for: each
\* collection's filtered entries in filtered order, collections in
\* configuration order.
ExpectedSamples(meta) ==
    Flatten([c \in DOMAIN meta |->
        [k \in 1..manifests[meta[c].manifest_path] |->
            [manifest_entry |-> ManifestEntry(meta[c].manifest_path, k),
             audio_dir |-> meta[c].audio_dir]]])
ExpectedWeights(meta) ==
    Flatten([c \in DOMAIN meta |->
        [k \in 1..manifests[meta[c].manifest_path] |-> meta[c].sample_weight]])
FilteredCounts(meta) == [c \in DOMAIN meta |-> manifests[meta[c].manifest_path]]

\* C4: the weight list is as long as the sample list after every merged
\* collection; what has been merged is the concatenation of the merged
\* collections' filtered entries with each sample's collection weight; after
\* construction length() is the sum of the filtered entry counts.
C4_Assembled ==
    /\ Len(sample_weights) = Len(data_samples)
    /\ next_dataset \in 1..(Len(dataset_meta) + 1)
    /\ data_samples = ExpectedSamples(SubSeq(dataset_meta, 1, next_dataset - 1))
    /\ sample_weights = ExpectedWeights(SubSeq(dataset_meta, 1, next_dataset - 1))
    /\ Constructed => Len(data_samples) = SumSeq(FilteredCounts(dataset_meta))
    /\ ret.op = "len" => ret.value = SumSeq(FilteredCounts(dataset_meta))

\* A of weight 2 with 3 entries, then B of weight 1 with 5: length 8.
C4_Witness ==
    /\ Constructed
    /\ dataset_meta = <<DatasetMeta(1, 2), DatasetMeta(2, 1)>>
    /\ manifests[1] = 3 /\ manifests[2] = 5
    /\ ret.op = "len" /\ ret.value = 8
    /\ sample_weights = <<2, 2, 2, 1, 1, 1, 1, 1>>

\* C5 as stated: get_sampler returns none when no step count is configured,
\* and for every configured step count N a handle built from the whole weight
\* list, the batch size and N.
C5_Original ==
    ret.op = "get_sampler"
    => /\ weighted_sample_steps = None => ret.value = None
       /\ weighted_sample_steps # None
          => ret.value = Some([sample_weights |-> sample_weights,
                               batch_size |-> ret.arg,
                               num_steps |-> weighted_sample_steps[1]])

\* C5, amended: get_sampler returns none when no step count is configured or
\* the configured step count is 0, and for every configured non-zero step
\* count N a handle built from the whole weight list, the batch size and N.
C5_Sampler ==
    ret.op = "get_sampler"
    => /\ ~ret.raised
       /\ weighted_sample_steps \in {None, Some(0)} => ret.value = None
       /\ weighted_sample_steps \notin {None, Some(0)}
          => ret.value = Some([sample_weights |-> ExpectedWeights(dataset_meta),
                               batch_size |-> ret.arg,
                               num_steps |-> weighted_sample_steps[1]])

C5_Witness ==
    /\ ret.op = "get_sampler"
    /\ weighted_sample_steps = Some(2)
    /\ ret.value # None
    /\ ret.value[1].num_steps = 2
    /\ Len(ret.value[1].sample_weights) = 3

\* What a correct batch holds for a list of examples: paths and recomputed
\* lengths in input order, rows as wide as the longest audio.
RowOk(row, audio, width, convert) ==
    /\ DOMAIN row = 1..width
    /\ Len(audio) <= width
    /\ \A j \in 1..width :
          row[j] = IF j <= Len(audio)
                   THEN (IF convert THEN Float32(audio[j]) ELSE audio[j])
                   ELSE 0
BatchOk(b, out, convert) ==
    LET width == MaxOf({Len(b[i]["audio"]) : i \in DOMAIN b})
    IN /\ DOMAIN out.audio_filepaths = DOMAIN b
       /\ DOMAIN out.audio_lens = DOMAIN b
       /\ DOMAIN out.audio = DOMAIN b
       /\ \A i \in DOMAIN b :
             /\ out.audio_filepaths[i] = b[i]["audio_filepath"]
             /\ out.audio_lens[i] = Len(b[i]["audio"])
             /\ RowOk(out.audio[i], b[i]["audio"], width, convert)

\* C6 as stated: for every list of well-formed examples collate does not fail,
\* paths and lengths follow the input, the lengths are recomputed from the
\* audio, the width is the largest length, and each row is the example's audio
\* followed by zeros.
C6_Original ==
    ret.op = "collate"
    => /\ ~ret.raised
       /\ ret.value # None
       /\ ret.arg # <<>> => BatchOk(ret.arg, ret.value[1], FALSE)

\* C6, amended: for every non-empty list of well-formed examples collate does
\* not fail, paths and lengths follow the input, the lengths are recomputed
\* from the audio and not taken from audio_len, the width is the largest
\* length, and each row is the example's audio converted to 32-bit floats
\* followed by zeros; on the empty list collate fails.
C6_Collate ==
    ret.op = "collate"
    => IF ret.arg = <<>>
       THEN ret.raised
       ELSE /\ ~ret.raised
            /\ ret.value # None
            /\ BatchOk(ret.arg, ret.value[1], TRUE)

\* Lengths 1 and 2 with stale stored lengths: width 2, the shorter row padded.
C6_Witness ==
    /\ ret.op = "collate"
    /\ ~ret.raised
    /\ Len(ret.arg) = 2
    /\ ret.arg[1]["audio"] = <<1>> /\ ret.arg[1]["audio_len"] = MaxAudioLen
    /\ Len(ret.arg[2]["audio"]) = 2 /\ ret.arg[2]["audio_len"] = 0
    /\ ret.value[1].audio_lens = <<1, 2>>
    /\ ret.value[1].audio[1] = <<1, 0>>

IsPrefix(a, b) == Len(a) <= Len(b) /\ a = SubSeq(b, 1, Len(a))
PitchWriters(chain) == {k \in DOMAIN chain : chain[k] \in {"pitch1", "pitch2"}}
\* The pitch field after a chain has run: absent (0) or the last writer's.
PitchAfter(chain) ==
    IF PitchWriters(chain) = {} THEN 0
    ELSE IF chain[MaxOf(PitchWriters(chain))] = "pitch1" THEN 1 ELSE 2
PitchIn(ex) == IF "pitch" \in DOMAIN ex THEN ex["pitch"] ELSE 0

\* C7 as stated: on every get(i), returned or failed, each configured
\* processor has been invoked exactly once, in configured order.
C7_Original ==
    Finished => proc_calls = feature_processors

\* C7, amended: on every get(i) that returns an example, each configured
\* processor has been invoked exactly once, in configured order, after audio
\* sampling completed and before the return, all on the one example, so that
\* a field two processors write holds the later one's value. On a get(i) that
\* fails, the processors invoked are those up to and including the one that
\* raised, and none when audio sampling failed.
C7_ChainOrder ==
    /\ IsPrefix(proc_calls, feature_processors)
    /\ proc_calls # <<>>
       => /\ decode_calls # <<>>
          /\ LastDecode.result.ok
    /\ pc \in {"idle", "sample"} => proc_calls = <<>>
    /\ pc = "returned"
       => /\ proc_calls = feature_processors
          /\ PitchIn(example[1]) = PitchAfter(feature_processors)
          /\ example[1]["audio_filepath"] = audio_filepath.rel
    /\ pc = "process" => PitchIn(example[1]) = PitchAfter(proc_calls)
    /\ pc = "raised"
       => \/ proc_calls = <<>> /\ ~LastDecode.result.ok
          \/ /\ proc_calls # <<>>
             /\ proc_calls[Len(proc_calls)] = "raise"
             /\ \A k \in 1..(Len(proc_calls) - 1) : proc_calls[k] # "raise"

C7_Witness ==
    /\ pc = "returned"
    /\ feature_processors = <<"pitch1", "pitch2">>
    /\ proc_calls = <<"pitch1", "pitch2">>
    /\ example[1]["pitch"] = 2

FailingStep ==
    \/ /\ decode_calls' # decode_calls
       /\ decode_calls' # <<>>
       /\ ~decode_calls'[Len(decode_calls')].result.ok
       /\ \/ IsLoadCall(decode_calls'[Len(decode_calls')])
          \/ Len(decode_calls') = 3
    \/ /\ proc_calls' # proc_calls
       /\ proc_calls' # <<>>
       /\ proc_calls'[Len(proc_calls')] = "raise"

\* A step that begins a get(i).
BeginStep == pc # "sample" /\ pc' = "sample"

\* C9: once constructed, no step of any get, get_sampler or collate call
\* changes the sample list, the weight list or the configuration; a failing get
\* ends with its error and no example, and only a returned example ever enters
\* a batch; a get begun after any outcome, a failure included, starts from
\* the same fresh locals, fixed by its index alone.
C9_NoSharedState ==
    [][Constructed
       => /\ UNCHANGED <<config, assembled, next_dataset>>
          /\ FailingStep => (pc' = "raised" /\ example' = None /\ error' # None)
          /\ pc' = "raised" => example' = None
          /\ (batch' # batch /\ batch' # <<>>)
             => (pc = "returned" /\ batch' = Append(batch, example[1]))
          /\ BeginStep
             => /\ index' \in DOMAIN data_samples
                /\ audio_filepath' =
                      [abs |-> <<data_samples[index'].audio_dir,
                                 data_samples[index'].manifest_entry.audio_filepath>>,
                       rel |-> data_samples[index'].manifest_entry.audio_filepath]
                /\ decode_calls' = <<>>
                /\ proc_calls' = <<>>
                /\ example' = None
                /\ error' = None]_vars

\* A get has failed on its third segment read while the loader holds an
\* example from an earlier get and get_sampler has been called.
C9_Witness ==
    /\ pc = "raised"
    /\ ErrorIs("ValueError")
    /\ Len(batch) = 1
    /\ ret.op = "get_sampler"
    /\ data_samples = ExpectedSamples(dataset_meta)
    /\ sample_weights = ExpectedWeights(dataset_meta)

====
